---- MODULE Spec2Model ----
(***************************************************************************)
(* The nvmet configfs mapping layer of src/src/lib.rs.                     *)
(*                                                                         *)
(* The program keeps no state of its own: every handle holds an identity   *)
(* and every operation is one or two filesystem calls below                *)
(* /sys/kernel/config/nvmet/.  The state of the model is therefore that    *)
(* tree: its directories, its attribute pseudo-files with their text, and  *)
(* its symbolic links.  The tree is a configfs one: making an item         *)
(* directory makes its attribute files and default groups with it, and     *)
(* removing it removes them, unless items or links made by a caller are    *)
(* still below it or a link still points at it.  A write to an attribute   *)
(* file stores the bytes written and a read returns them.                  *)
(*                                                                         *)
(* Text is a sequence of one-character strings, paths are sequences of     *)
(* path components relative to CONFIGFS_DIR.                               *)
(***************************************************************************)
EXTENDS Integers, Sequences, FiniteSets, TLC

VARIABLES
    fs,      \* the configuration tree: [dirs, files, links]
    last,    \* the last completed call of the sequential caller
    call,    \* per concurrent caller: the creation call in flight
    content, \* pure-decoder runs: the text of the backing file
    decoded  \* pure-decoder runs: the decoder applied and its result

vars == <<fs, last, call, content, decoded>>

----------------------------------------------------------------------------
(* Bounds of the model. *)

NumNqn == 2
NumNsid == 1
NumPort == 2
NumHost == 1
MaxDirty == 1
NumCallers == 2
MaxLen == 3

Nqns == {"nqn.test-" \o ToString(i) : i \in 1..NumNqn}
Nsids == 1..NumNsid
PortIds == 1..NumPort
HostNqns == {"nqn.host-" \o ToString(i) : i \in 1..NumHost}

----------------------------------------------------------------------------
(* Text helpers. *)

NL == "\n"

\* No value: a unit result, an error, a call without an argument.
NoVal == "-"

\* value.to_string() + "\n"
Line(s) == Append(s, NL)

----------------------------------------------------------------------------
(* Path Resolver. *)

Subsystem_path(nqn) == <<"subsystems", nqn>>

Port_path(id) == <<"ports", ToString(id)>>

Host_path(nqn) == <<"hosts", nqn>>

join(p, name) == Append(p, name)

Namespace_path(nqn, nsid) ==
    join(join(Subsystem_path(nqn), "namespaces"), ToString(nsid))

parent(p) == SubSeq(p, 1, Len(p) - 1)

IsPrefix(p, q) == Len(p) <= Len(q) /\ SubSeq(q, 1, Len(p)) = p

----------------------------------------------------------------------------
(* The configfs tree and the std::fs calls the program makes on it. *)

SubsystemAttrs ==
    {"attr_allow_any_host", "attr_cntlid_min", "attr_cntlid_max",
     "attr_model", "attr_serial"}

NamespaceAttrs ==
    {"enable", "ana_grpid", "device_nguid", "device_uuid", "device_path"}

PortAttrs == {"addr_adrfam", "addr_traddr", "addr_trsvcid", "addr_trtype"}

\* The text a fresh item's attribute file shows (an empty line for the
\* address attributes and for the serial and the uuid the kernel draws).
KernelDefault(attr) ==
    CASE attr \in {"attr_allow_any_host", "enable"} -> <<"0", NL>>
      [] attr \in {"attr_cntlid_min", "ana_grpid"} -> <<"1", NL>>
      [] attr = "attr_cntlid_max" -> <<"6", "5", "5", "1", "9", NL>>
      [] attr = "attr_model" -> <<"L", "i", "n", "u", "x", NL>>
      [] attr = "device_path" -> <<"(", "n", "u", "l", "l", ")", NL>>
      [] OTHER -> <<NL>>

\* What the kernel makes together with an item directory p.
DefaultGroups(p) ==
    IF Len(p) = 2 /\ p[1] = "subsystems" THEN {join(p, "namespaces")}
    ELSE IF Len(p) = 2 /\ p[1] = "ports" THEN {join(p, "subsystems")}
    ELSE {}

ItemAttrs(p) ==
    IF Len(p) = 2 /\ p[1] = "subsystems" THEN SubsystemAttrs
    ELSE IF Len(p) = 4 /\ p[1] = "subsystems" THEN NamespaceAttrs
    ELSE IF Len(p) = 2 /\ p[1] = "ports" THEN PortAttrs
    ELSE {}

\* The nvmet module is loaded: its three top-level groups exist, empty.
EmptyTree ==
    [dirs |-> {<<"subsystems">>, <<"ports">>, <<"hosts">>},
     files |-> <<>>,
     links |-> <<>>]

Present(f, p) == p \in f.dirs \/ p \in DOMAIN f.files \/ p \in DOMAIN f.links

Restrict(fn, S) == [x \in S |-> fn[x]]

Result(res, f) == [res |-> res, fs |-> f]

\* create_dir as it would be with DirBuilder's recursive mode: an existing
\* directory is no error.
create_dir_forgiving(f, p) ==
    IF p \in f.dirs THEN Result("Ok", f)
    ELSE IF Present(f, p) THEN Result("AlreadyExists", f)
    ELSE IF parent(p) \notin f.dirs THEN Result("NotFound", f)
    ELSE Result("Ok",
           [f EXCEPT !.dirs = @ \cup {p} \cup DefaultGroups(p),
                     !.files = [a \in {join(p, n) : n \in ItemAttrs(p)}
                                  |-> KernelDefault(a[Len(a)])] @@ @])

\* std::fs::create_dir: one mkdir(2).
create_dir(f, p) ==
    IF Present(f, p) THEN Result("AlreadyExists", f)
    ELSE IF parent(p) \notin f.dirs THEN Result("NotFound", f)
    ELSE Result("Ok",
           [f EXCEPT !.dirs = @ \cup {p} \cup DefaultGroups(p),
                     !.files = [a \in {join(p, n) : n \in ItemAttrs(p)}
                                  |-> KernelDefault(a[Len(a)])] @@ @])

\* Path::is_dir
is_dir(f, p) == p \in f.dirs

\* std::fs::DirBuilder::new().recursive(true).create: mkdir(2); a missing
\* parent is made first and the mkdir repeated; any other failure is
\* forgiven when the path is a directory by then.
RECURSIVE create_dir_all(_, _)
create_dir_all(f, p) ==
    LET first == create_dir(f, p)
    IN  IF first.res = "Ok" THEN first
        ELSE IF first.res = "NotFound" /\ Len(p) > 1 THEN
            LET up == create_dir_all(f, parent(p))
            IN  IF up.res # "Ok" THEN up
                ELSE LET again == create_dir(up.fs, p)
                     IN  IF again.res # "Ok" /\ is_dir(again.fs, p)
                         THEN Result("Ok", again.fs) ELSE again
        ELSE IF is_dir(f, p) THEN Result("Ok", f)
        ELSE first

\* Items and links a caller made below p (not the kernel's default groups
\* and attribute files).
UserChildren(f, p) ==
    {q \in f.dirs : IsPrefix(p, q) /\ Len(q) >= Len(p) + 2}
    \cup {q \in DOMAIN f.links : IsPrefix(p, q)}

\* remove_dir as it would be with std::fs::remove_dir_all: whatever is below
\* the directory goes with it.
remove_dir_all(f, p) ==
    IF p \notin f.dirs THEN Result("NotFound", f)
    ELSE Result("Ok",
           [f EXCEPT !.dirs = {q \in @ : ~IsPrefix(p, q)},
                     !.files = Restrict(@, {q \in DOMAIN @ : ~IsPrefix(p, q)}),
                     !.links = Restrict(@, {q \in DOMAIN @ : ~IsPrefix(p, q)})])

\* std::fs::remove_dir: one rmdir(2).
remove_dir(f, p) ==
    IF p \notin f.dirs THEN Result("NotFound", f)
    ELSE IF \E l \in DOMAIN f.links : f.links[l] = p THEN Result("Busy", f)
    ELSE IF UserChildren(f, p) # {} THEN Result("NotEmpty", f)
    ELSE Result("Ok",
           [f EXCEPT !.dirs = {q \in @ : ~IsPrefix(p, q)},
                     !.files = Restrict(@, {q \in DOMAIN @ : ~IsPrefix(p, q)})])

\* try_exists as it would be with Path::is_file.
is_file(f, p) == p \in DOMAIN f.files

\* Path::try_exists
try_exists(f, p) == Present(f, p)

\* std::os::unix::fs::symlink: one symlink(2); configfs links only to an
\* existing item.
symlink(f, target, linkpath) ==
    IF Present(f, linkpath) THEN Result("AlreadyExists", f)
    ELSE IF parent(linkpath) \notin f.dirs \/ target \notin f.dirs
    THEN Result("NotFound", f)
    ELSE Result("Ok", [f EXCEPT !.links = (linkpath :> target) @@ @])

\* std::fs::read_link
read_link(f, p) ==
    IF p \in DOMAIN f.links THEN "Ok"
    ELSE IF Present(f, p) THEN "InvalidInput"
    ELSE "NotFound"

\* std::fs::remove_file: one unlink(2).
remove_file(f, p) ==
    IF p \in DOMAIN f.links
    THEN Result("Ok", [f EXCEPT !.links =
                          Restrict(@, DOMAIN @ \ {p})])
    ELSE IF p \in f.dirs THEN Result("IsADirectory", f)
    ELSE Result("NotFound", f)

----------------------------------------------------------------------------
(* Lifecycle operations. *)

Subsystem_new(f, nqn) == create_dir(f, Subsystem_path(nqn))

Subsystem_exists(f, nqn) == try_exists(f, Subsystem_path(nqn))

Subsystem_delete(f, nqn) == remove_dir(f, Subsystem_path(nqn))

Subsystem_create_namespace(f, nqn, nsid) ==
    create_dir(f, join(join(Subsystem_path(nqn), "namespaces"), ToString(nsid)))

Port_new(f, id) == create_dir_all(f, Port_path(id))

Port_exists(f, id) == try_exists(f, Port_path(id))

Port_delete(f, id) == remove_dir(f, Port_path(id))

Host_new(f, nqn) == create_dir(f, Host_path(nqn))

Host_exists(f, nqn) == try_exists(f, Host_path(nqn))

Host_delete(f, nqn) == remove_dir(f, Host_path(nqn))

(* Relationship operations. *)

LinkPath(id, nqn) == join(join(Port_path(id), "subsystems"), nqn)

\* has_subsystem as it would be without the NotFound arm: every failure of
\* read_link is returned.
Port_has_subsystem_strict(f, id, nqn) ==
    LET res == read_link(f, LinkPath(id, nqn))
    IN  [res |-> res, val |-> (res = "Ok")]

Port_has_subsystem(f, id, nqn) ==
    LET res == read_link(f, LinkPath(id, nqn))
    IN  IF res = "Ok" THEN [res |-> "Ok", val |-> TRUE]
        ELSE IF res = "NotFound" THEN [res |-> "Ok", val |-> FALSE]
        ELSE [res |-> res, val |-> FALSE]

Port_add_subsystem(f, id, nqn) ==
    symlink(f, Subsystem_path(nqn), LinkPath(id, nqn))

Port_remove_subsystem(f, id, nqn) == remove_file(f, LinkPath(id, nqn))

----------------------------------------------------------------------------
(* The text protocol: what the setters write and how the getters decode. *)

Digits == <<"0", "1", "2", "3", "4", "5", "6", "7", "8", "9">>

IsDigit(c) == \E i \in 1..10 : Digits[i] = c

DigitVal(c) == (CHOOSE i \in 1..10 : Digits[i] = c) - 1

\* u16/u32::to_string: decimal, no sign, no leading zeros.
RECURSIVE to_string(_)
to_string(n) ==
    IF n < 10 THEN <<Digits[n + 1]>>
    ELSE Append(to_string(n \div 10), Digits[(n % 10) + 1])

\* char::is_whitespace, on the characters of the model.
IsWhitespace(c) == c \in {" ", "\t", "\n", "\r"}

RECURSIVE trim_start(_)
trim_start(s) ==
    IF s # <<>> /\ IsWhitespace(Head(s)) THEN trim_start(Tail(s)) ELSE s

RECURSIVE trim_end(_)
trim_end(s) ==
    IF s # <<>> /\ IsWhitespace(s[Len(s)])
    THEN trim_end(SubSeq(s, 1, Len(s) - 1)) ELSE s

\* str::trim
trim(s) == trim_end(trim_start(s))

\* str::trim_end_matches('\n'): every trailing newline goes.
RECURSIVE trim_end_matches_newline(_)
trim_end_matches_newline(s) ==
    IF s # <<>> /\ s[Len(s)] = NL
    THEN trim_end_matches_newline(SubSeq(s, 1, Len(s) - 1)) ELSE s

\* uN::MAX in decimal (u32::MAX is beyond the checker's integers, so the
\* overflow test is made on the digits).
U8_MAX == <<"2", "5", "5">>
U16_MAX == <<"6", "5", "5", "3", "5">>
U32_MAX == <<"4", "2", "9", "4", "9", "6", "7", "2", "9", "5">>

RECURSIVE DigitsValue(_, _)
DigitsValue(s, acc) ==
    IF s = <<>> THEN acc
    ELSE DigitsValue(Tail(s), acc * 10 + DigitVal(Head(s)))

RECURSIVE StripZeros(_)
StripZeros(s) == IF s # <<>> /\ Head(s) = "0" THEN StripZeros(Tail(s)) ELSE s

\* Of two digit strings of one length without leading zeros: a > b.
RECURSIVE DigitsGreater(_, _)
DigitsGreater(a, b) ==
    IF a = <<>> THEN FALSE
    ELSE IF Head(a) # Head(b) THEN DigitVal(Head(a)) > DigitVal(Head(b))
    ELSE DigitsGreater(Tail(a), Tail(b))

Overflows(digits, max) ==
    LET d == StripZeros(digits)
    IN  Len(d) > Len(max) \/ (Len(d) = Len(max) /\ DigitsGreater(d, max))

\* str::parse::<uN>: an optional "+", then one or more decimal digits, the
\* value at most uN::MAX.
parse_unsigned(s, max) ==
    LET body == IF s # <<>> /\ Head(s) = "+" THEN Tail(s) ELSE s
    IN  IF body = <<>> \/ \E i \in 1..Len(body) : ~IsDigit(body[i])
        THEN [res |-> "Err(Parse)", val |-> NoVal]
        ELSE IF Overflows(body, max)
        THEN [res |-> "Err(Parse)", val |-> NoVal]
        ELSE [res |-> "Ok", val |-> DigitsValue(body, 0)]

\* The bytes the boolean setters write.
bool_bytes(value) == IF value THEN <<"1", NL>> ELSE <<"0", NL>>

\* read::<u8>(path).map(|v| v == 1), after the file is read.
decode_enable(str) ==
    LET v == parse_unsigned(trim(str), U8_MAX)
    IN  IF v.res = "Ok" THEN [res |-> "Ok", val |-> (v.val = 1)] ELSE v

\* read::<String>(path), after the file is read: String's parse cannot fail.
decode_String(str) == [res |-> "Ok", val |-> trim(str)]

\* str.trim_end_matches('\n').parse::<uN>().unwrap()
decode_unwrap_unsigned(str, max) ==
    LET v == parse_unsigned(trim_end_matches_newline(str), max)
    IN  IF v.res = "Ok" THEN v ELSE [res |-> "panic", val |-> NoVal]

\* attr_allow_any_host_str == "1\n"
decode_allow_any_host(str) == [res |-> "Ok", val |-> (str = <<"1", NL>>)]

\* The attr_model decoder as it would be without the trim: the text as read.
decode_untrimmed(str) == [res |-> "Ok", val |-> str]

\* Ok(str.trim_end_matches('\n').to_string())
decode_trim_end(str) == [res |-> "Ok", val |-> trim_end_matches_newline(str)]

NullSentinel == <<"(", "n", "u", "l", "l", ")", NL>>

None == <<"None">>

Some(s) == <<"Some", s>>

\* The device_path decoder as it would be with the text trimmed before the
\* match.
decode_device_path_trimmed(str) ==
    IF trim(str) = <<"(", "n", "u", "l", "l", ")">>
    THEN [res |-> "Ok", val |-> None]
    ELSE [res |-> "Ok", val |-> Some(trim_end_matches_newline(str))]

\* The match of Namespace::device_path.
decode_device_path(str) ==
    IF str = NullSentinel THEN [res |-> "Ok", val |-> None]
    ELSE [res |-> "Ok", val |-> Some(trim_end_matches_newline(str))]

----------------------------------------------------------------------------
(* Attribute files. *)

\* std::fs::File::create(path)? then file.write_all(bytes)?: configfs makes
\* no file in an item directory, and stores what is written to one it has.
write_file(f, p, bytes) ==
    IF p \in DOMAIN f.files
    THEN Result("Ok", [f EXCEPT !.files = [@ EXCEPT ![p] = bytes]])
    ELSE IF p \in f.dirs THEN Result("IsADirectory", f)
    ELSE IF parent(p) \in f.dirs THEN Result("PermissionDenied", f)
    ELSE Result("NotFound", f)

\* std::fs::read_to_string
read_to_string(f, p) ==
    IF p \in DOMAIN f.files THEN [res |-> "Ok", val |-> f.files[p]]
    ELSE IF p \in f.dirs THEN [res |-> "Err(Io)", val |-> "IsADirectory"]
    ELSE [res |-> "Err(Io)", val |-> "NotFound"]

\* fn read<P, F>(path) for F = u8 (Namespace::enable maps the value).
read_u8(f, p) ==
    LET str == read_to_string(f, p)
    IN  IF str.res # "Ok" THEN str ELSE decode_enable(str.val)

\* fn read<P, F>(path) for F = String.
read_String(f, p) ==
    LET str == read_to_string(f, p)
    IN  IF str.res # "Ok" THEN str ELSE decode_String(str.val)

\* std::fs::read_to_string(path).unwrap()
read_to_string_unwrap(f, p) ==
    LET str == read_to_string(f, p)
    IN  IF str.res # "Ok" THEN [res |-> "panic", val |-> NoVal] ELSE str

(* Namespace: the handle holds the namespace directory's path. *)

Namespace_set_enable(f, ns, value) ==
    write_file(f, join(ns, "enable"), bool_bytes(value))

Namespace_enable(f, ns) == read_u8(f, join(ns, "enable"))

Namespace_set_ana_grpid(f, ns, value) ==
    write_file(f, join(ns, "ana_grpid"), Line(to_string(value)))

Namespace_ana_grpid(f, ns) ==
    LET str == read_to_string_unwrap(f, join(ns, "ana_grpid"))
    IN  IF str.res # "Ok" THEN str
        ELSE decode_unwrap_unsigned(str.val, U32_MAX)

Namespace_set_device_nguid(f, ns, value) ==
    write_file(f, join(ns, "device_nguid"), Line(value))

Namespace_device_nguid(f, ns) == read_String(f, join(ns, "device_nguid"))

Namespace_set_device_uuid(f, ns, value) ==
    write_file(f, join(ns, "device_uuid"), Line(value))

Namespace_device_uuid(f, ns) == read_String(f, join(ns, "device_uuid"))

Namespace_set_device_path(f, ns, value) ==
    write_file(f, join(ns, "device_path"), Line(value))

Namespace_device_path(f, ns) ==
    LET str == read_to_string_unwrap(f, join(ns, "device_path"))
    IN  IF str.res # "Ok" THEN str ELSE decode_device_path(str.val)

(* Subsystem *)

Subsystem_set_attr_allow_any_host(f, nqn, value) ==
    write_file(f, join(Subsystem_path(nqn), "attr_allow_any_host"),
               bool_bytes(value))

Subsystem_attr_allow_any_host(f, nqn) ==
    LET str == read_to_string_unwrap(f, join(Subsystem_path(nqn),
                                             "attr_allow_any_host"))
    IN  IF str.res # "Ok" THEN str ELSE decode_allow_any_host(str.val)

Subsystem_set_attr_cntlid_max(f, nqn, value) ==
    write_file(f, join(Subsystem_path(nqn), "attr_cntlid_max"),
               Line(to_string(value)))

Subsystem_attr_cntlid_max(f, nqn) ==
    LET str == read_to_string_unwrap(f, join(Subsystem_path(nqn),
                                             "attr_cntlid_max"))
    IN  IF str.res # "Ok" THEN str
        ELSE decode_unwrap_unsigned(str.val, U16_MAX)

Subsystem_set_attr_cntlid_min(f, nqn, value) ==
    write_file(f, join(Subsystem_path(nqn), "attr_cntlid_min"),
               Line(to_string(value)))

Subsystem_attr_cntlid_min(f, nqn) ==
    LET str == read_to_string_unwrap(f, join(Subsystem_path(nqn),
                                             "attr_cntlid_min"))
    IN  IF str.res # "Ok" THEN str
        ELSE decode_unwrap_unsigned(str.val, U16_MAX)

Subsystem_set_attr_model(f, nqn, value) ==
    write_file(f, join(Subsystem_path(nqn), "attr_model"), Line(value))

Subsystem_attr_model(f, nqn) ==
    LET str == read_to_string_unwrap(f, join(Subsystem_path(nqn),
                                             "attr_model"))
    IN  IF str.res # "Ok" THEN str ELSE decode_trim_end(str.val)

Subsystem_set_attr_serial(f, nqn, value) ==
    write_file(f, join(Subsystem_path(nqn), "attr_serial"), Line(value))

Subsystem_attr_serial(f, nqn) ==
    LET str == read_to_string_unwrap(f, join(Subsystem_path(nqn),
                                             "attr_serial"))
    IN  IF str.res # "Ok" THEN str ELSE decode_trim_end(str.val)

(* Port *)

Port_set_addr_adrfam(f, id, value) ==
    write_file(f, join(Port_path(id), "addr_adrfam"), Line(value))

Port_addr_adrfam(f, id) == read_String(f, join(Port_path(id), "addr_adrfam"))

Port_set_addr_traddr(f, id, value) ==
    write_file(f, join(Port_path(id), "addr_traddr"), Line(value))

Port_addr_traddr(f, id) == read_String(f, join(Port_path(id), "addr_traddr"))

Port_set_addr_trsvcid(f, id, value) ==
    write_file(f, join(Port_path(id), "addr_trsvcid"), Line(value))

Port_addr_trsvcid(f, id) ==
    read_String(f, join(Port_path(id), "addr_trsvcid"))

Port_set_addr_trtype(f, id, value) ==
    write_file(f, join(Port_path(id), "addr_trtype"), Line(value))

Port_addr_trtype(f, id) == read_String(f, join(Port_path(id), "addr_trtype"))

----------------------------------------------------------------------------
(* The sequential caller: one action per call, recording what it returned. *)

Called(op, target, arg, res, val) ==
    [op |-> op, target |-> target, arg |-> arg, res |-> res, val |-> val]

\* A call that changes the tree and returns io::Result<()> or a handle.
Does(op, target, arg, r) ==
    /\ fs' = r.fs
    /\ last' = Called(op, target, arg, r.res, NoVal)
    /\ UNCHANGED <<call, content, decoded>>

\* A call that only reads the tree.
Asks(op, target, arg, res, val) ==
    /\ last' = Called(op, target, arg, res, val)
    /\ UNCHANGED <<fs, call, content, decoded>>

SubsystemNew(nqn) ==
    Does("Subsystem::new", Subsystem_path(nqn), NoVal, Subsystem_new(fs, nqn))

SubsystemExists(nqn) ==
    Asks("Subsystem::exists", Subsystem_path(nqn), NoVal, "Ok",
         Subsystem_exists(fs, nqn))

SubsystemDelete(nqn) ==
    Does("Subsystem::delete", Subsystem_path(nqn), NoVal,
         Subsystem_delete(fs, nqn))

SubsystemCreateNamespace(nqn, nsid) ==
    Does("Subsystem::create_namespace", Namespace_path(nqn, nsid), NoVal,
         Subsystem_create_namespace(fs, nqn, nsid))

PortNew(id) == Does("Port::new", Port_path(id), NoVal, Port_new(fs, id))

PortExists(id) ==
    Asks("Port::exists", Port_path(id), NoVal, "Ok", Port_exists(fs, id))

PortDelete(id) ==
    Does("Port::delete", Port_path(id), NoVal, Port_delete(fs, id))

HostNew(nqn) == Does("Host::new", Host_path(nqn), NoVal, Host_new(fs, nqn))

HostExists(nqn) ==
    Asks("Host::exists", Host_path(nqn), NoVal, "Ok", Host_exists(fs, nqn))

HostDelete(nqn) ==
    Does("Host::delete", Host_path(nqn), NoVal, Host_delete(fs, nqn))

PortHasSubsystem(id, nqn) ==
    LET r == Port_has_subsystem(fs, id, nqn)
    IN  Asks("Port::has_subsystem", LinkPath(id, nqn), NoVal, r.res, r.val)

PortAddSubsystem(id, nqn) ==
    Does("Port::add_subsystem", LinkPath(id, nqn), NoVal,
         Port_add_subsystem(fs, id, nqn))

PortRemoveSubsystem(id, nqn) ==
    Does("Port::remove_subsystem", LinkPath(id, nqn), NoVal,
         Port_remove_subsystem(fs, id, nqn))

----------------------------------------------------------------------------
(* Attribute calls of the sequential caller.  A Subsystem or Port handle   *)
(* is opened on any identity (open touches nothing); a Namespace handle    *)
(* comes from create_namespace or namespaces(), so its directory exists.   *)

Namespaces == {ns \in fs.dirs : Len(ns) = 4 /\ ns[1] = "subsystems"}

\* The attribute files whose text is not the one a fresh item shows.
Dirty(f) == {p \in DOMAIN f.files : f.files[p] # KernelDefault(p[Len(p)])}

\* A setter call; the model follows at most MaxDirty changed attribute
\* files at a time.
Sets(op, target, arg, r) ==
    /\ Cardinality(Dirty(r.fs)) <= MaxDirty
    /\ Does(op, target, arg, r)

Gets(op, target, r) == Asks(op, target, NoVal, r.res, r.val)

NamespaceSetEnable(ns, value) ==
    Sets("Namespace::set_enable", ns, value,
         Namespace_set_enable(fs, ns, value))

NamespaceEnable(ns) == Gets("Namespace::enable", ns, Namespace_enable(fs, ns))

NamespaceSetAnaGrpid(ns, value) ==
    Sets("Namespace::set_ana_grpid", ns, value,
         Namespace_set_ana_grpid(fs, ns, value))

NamespaceAnaGrpid(ns) ==
    Gets("Namespace::ana_grpid", ns, Namespace_ana_grpid(fs, ns))

NamespaceSetDeviceNguid(ns, value) ==
    Sets("Namespace::set_device_nguid", ns, value,
         Namespace_set_device_nguid(fs, ns, value))

NamespaceDeviceNguid(ns) ==
    Gets("Namespace::device_nguid", ns, Namespace_device_nguid(fs, ns))

NamespaceSetDeviceUuid(ns, value) ==
    Sets("Namespace::set_device_uuid", ns, value,
         Namespace_set_device_uuid(fs, ns, value))

NamespaceDeviceUuid(ns) ==
    Gets("Namespace::device_uuid", ns, Namespace_device_uuid(fs, ns))

NamespaceSetDevicePath(ns, value) ==
    Sets("Namespace::set_device_path", ns, value,
         Namespace_set_device_path(fs, ns, value))

NamespaceDevicePath(ns) ==
    Gets("Namespace::device_path", ns, Namespace_device_path(fs, ns))

SubsystemSetAttrAllowAnyHost(nqn, value) ==
    Sets("Subsystem::set_attr_allow_any_host", Subsystem_path(nqn), value,
         Subsystem_set_attr_allow_any_host(fs, nqn, value))

SubsystemAttrAllowAnyHost(nqn) ==
    Gets("Subsystem::attr_allow_any_host", Subsystem_path(nqn),
         Subsystem_attr_allow_any_host(fs, nqn))

SubsystemSetAttrCntlidMax(nqn, value) ==
    Sets("Subsystem::set_attr_cntlid_max", Subsystem_path(nqn), value,
         Subsystem_set_attr_cntlid_max(fs, nqn, value))

SubsystemAttrCntlidMax(nqn) ==
    Gets("Subsystem::attr_cntlid_max", Subsystem_path(nqn),
         Subsystem_attr_cntlid_max(fs, nqn))

SubsystemSetAttrCntlidMin(nqn, value) ==
    Sets("Subsystem::set_attr_cntlid_min", Subsystem_path(nqn), value,
         Subsystem_set_attr_cntlid_min(fs, nqn, value))

SubsystemAttrCntlidMin(nqn) ==
    Gets("Subsystem::attr_cntlid_min", Subsystem_path(nqn),
         Subsystem_attr_cntlid_min(fs, nqn))

SubsystemSetAttrModel(nqn, value) ==
    Sets("Subsystem::set_attr_model", Subsystem_path(nqn), value,
         Subsystem_set_attr_model(fs, nqn, value))

SubsystemAttrModel(nqn) ==
    Gets("Subsystem::attr_model", Subsystem_path(nqn),
         Subsystem_attr_model(fs, nqn))

SubsystemSetAttrSerial(nqn, value) ==
    Sets("Subsystem::set_attr_serial", Subsystem_path(nqn), value,
         Subsystem_set_attr_serial(fs, nqn, value))

SubsystemAttrSerial(nqn) ==
    Gets("Subsystem::attr_serial", Subsystem_path(nqn),
         Subsystem_attr_serial(fs, nqn))

PortSetAddrAdrfam(id, value) ==
    Sets("Port::set_addr_adrfam", Port_path(id), value,
         Port_set_addr_adrfam(fs, id, value))

PortAddrAdrfam(id) ==
    Gets("Port::addr_adrfam", Port_path(id), Port_addr_adrfam(fs, id))

PortSetAddrTraddr(id, value) ==
    Sets("Port::set_addr_traddr", Port_path(id), value,
         Port_set_addr_traddr(fs, id, value))

PortAddrTraddr(id) ==
    Gets("Port::addr_traddr", Port_path(id), Port_addr_traddr(fs, id))

PortSetAddrTrsvcid(id, value) ==
    Sets("Port::set_addr_trsvcid", Port_path(id), value,
         Port_set_addr_trsvcid(fs, id, value))

PortAddrTrsvcid(id) ==
    Gets("Port::addr_trsvcid", Port_path(id), Port_addr_trsvcid(fs, id))

PortSetAddrTrtype(id, value) ==
    Sets("Port::set_addr_trtype", Port_path(id), value,
         Port_set_addr_trtype(fs, id, value))

PortAddrTrtype(id) ==
    Gets("Port::addr_trtype", Port_path(id), Port_addr_trtype(fs, id))

\* The attribute calls, with the values the setters are given.
AttrCalls(bools, uints, strs) ==
    \/ \E ns \in Namespaces, v \in bools : NamespaceSetEnable(ns, v)
    \/ \E ns \in Namespaces : NamespaceEnable(ns)
    \/ \E ns \in Namespaces, v \in uints : NamespaceSetAnaGrpid(ns, v)
    \/ \E ns \in Namespaces : NamespaceAnaGrpid(ns)
    \/ \E ns \in Namespaces, v \in strs : NamespaceSetDeviceNguid(ns, v)
    \/ \E ns \in Namespaces : NamespaceDeviceNguid(ns)
    \/ \E ns \in Namespaces, v \in strs : NamespaceSetDeviceUuid(ns, v)
    \/ \E ns \in Namespaces : NamespaceDeviceUuid(ns)
    \/ \E ns \in Namespaces, v \in strs : NamespaceSetDevicePath(ns, v)
    \/ \E ns \in Namespaces : NamespaceDevicePath(ns)
    \/ \E nqn \in Nqns, v \in bools : SubsystemSetAttrAllowAnyHost(nqn, v)
    \/ \E nqn \in Nqns : SubsystemAttrAllowAnyHost(nqn)
    \/ \E nqn \in Nqns, v \in uints : SubsystemSetAttrCntlidMax(nqn, v)
    \/ \E nqn \in Nqns : SubsystemAttrCntlidMax(nqn)
    \/ \E nqn \in Nqns, v \in uints : SubsystemSetAttrCntlidMin(nqn, v)
    \/ \E nqn \in Nqns : SubsystemAttrCntlidMin(nqn)
    \/ \E nqn \in Nqns, v \in strs : SubsystemSetAttrModel(nqn, v)
    \/ \E nqn \in Nqns : SubsystemAttrModel(nqn)
    \/ \E nqn \in Nqns, v \in strs : SubsystemSetAttrSerial(nqn, v)
    \/ \E nqn \in Nqns : SubsystemAttrSerial(nqn)
    \/ \E id \in PortIds, v \in strs : PortSetAddrAdrfam(id, v)
    \/ \E id \in PortIds : PortAddrAdrfam(id)
    \/ \E id \in PortIds, v \in strs : PortSetAddrTraddr(id, v)
    \/ \E id \in PortIds : PortAddrTraddr(id)
    \/ \E id \in PortIds, v \in strs : PortSetAddrTrsvcid(id, v)
    \/ \E id \in PortIds : PortAddrTrsvcid(id)
    \/ \E id \in PortIds, v \in strs : PortSetAddrTrtype(id, v)
    \/ \E id \in PortIds : PortAddrTrtype(id)

----------------------------------------------------------------------------
(* Concurrent creation.  Each caller is a thread inside one creation call; *)
(* a step is one system call of it, and the steps of the callers           *)
(* interleave.  create_dir is one mkdir(2); DirBuilder's recursive create  *)
(* is a mkdir(2) and, when that fails, a stat(2) for is_dir.               *)

Callers == 1..NumCallers

Idle == [op |-> "none", target |-> <<>>, pc |-> "idle", res |-> NoVal,
         absent |-> FALSE]

\* The caller enters op on target; absent records whether the call starts
\* with the entity missing (and the directory it goes into there).
Invoke(c, op, target) ==
    /\ call[c].pc = "idle"
    /\ call' = [call EXCEPT ![c] =
                  [op |-> op, target |-> target, pc |-> "mkdir",
                   res |-> NoVal,
                   absent |-> ~Present(fs, target) /\ parent(target) \in fs.dirs]]
    /\ UNCHANGED <<fs, last, content, decoded>>

Returns(c, res) ==
    call' = [call EXCEPT ![c].pc = "returned", ![c].res = res]

\* std::fs::create_dir(path)? of Subsystem::new, Host::new and
\* create_namespace.
Mkdir(c) ==
    /\ call[c].pc = "mkdir"
    /\ call[c].op # "Port::new"
    /\ LET r == create_dir(fs, call[c].target)
       IN  fs' = r.fs /\ Returns(c, r.res)
    /\ UNCHANGED <<last, content, decoded>>

\* Port::new, the first mkdir(2) of the recursive create (with a parent
\* missing, the parents are made and the mkdir repeated).
PortNewMkdir(c) ==
    /\ call[c].pc = "mkdir"
    /\ call[c].op = "Port::new"
    /\ LET r == create_dir(fs, call[c].target)
       IN  IF r.res = "Ok" THEN fs' = r.fs /\ Returns(c, "Ok")
           ELSE IF r.res = "NotFound" THEN
               LET all == create_dir_all(fs, call[c].target)
               IN  fs' = all.fs /\ Returns(c, all.res)
           ELSE /\ fs' = fs
                /\ call' = [call EXCEPT ![c].pc = "is_dir", ![c].res = r.res]
    /\ UNCHANGED <<last, content, decoded>>

\* Port::new, after a failed mkdir(2): Err(_) if path.is_dir() => Ok(()).
PortNewIsDir(c) ==
    /\ call[c].pc = "is_dir"
    /\ Returns(c, IF is_dir(fs, call[c].target) THEN "Ok" ELSE call[c].res)
    /\ UNCHANGED <<fs, last, content, decoded>>

\* The caller takes the result and is free for another call.
Return(c) ==
    /\ call[c].pc = "returned"
    /\ call' = [call EXCEPT ![c] = Idle]
    /\ UNCHANGED <<fs, last, content, decoded>>

NextRace ==
    \/ \E c \in Callers, nqn \in Nqns :
         Invoke(c, "Subsystem::new", Subsystem_path(nqn))
    \/ \E c \in Callers, nqn \in Nqns, nsid \in Nsids :
         Invoke(c, "Subsystem::create_namespace", Namespace_path(nqn, nsid))
    \/ \E c \in Callers, id \in PortIds : Invoke(c, "Port::new", Port_path(id))
    \/ \E c \in Callers, nqn \in HostNqns :
         Invoke(c, "Host::new", Host_path(nqn))
    \/ \E c \in Callers : Mkdir(c)
    \/ \E c \in Callers : PortNewMkdir(c)
    \/ \E c \in Callers : PortNewIsDir(c)
    \/ \E c \in Callers : Return(c)

----------------------------------------------------------------------------
(* The text protocol on its own: one attribute file, whose text is either  *)
(* what the kernel shows or what a setter wrote, and the decoders of the   *)
(* getters applied to it.                                                  *)

Alphabet == {"0", "1", "a", " ", NL}

RECURSIVE SeqsUpTo(_, _)
SeqsUpTo(S, n) ==
    IF n = 0 THEN {<<>>}
    ELSE LET shorter == SeqsUpTo(S, n - 1)
         IN  shorter \cup {Append(s, x) : s \in shorter, x \in S}

Strings == SeqsUpTo(Alphabet, MaxLen)

NullText == <<"(", "n", "u", "l", "l", ")">>

\* Texts a file may show: every short text, and some longer ones.
Contents ==
    Strings \cup
    {NullText, Line(NullText), Line(Line(NullText)), <<" ">> \o Line(NullText),
     <<"2", NL>>, <<"+", "1", NL>>, <<"-", "1", NL>>, <<"\t", "1", NL>>,
     <<"2", "5", "5", NL>>, <<"2", "5", "6", NL>>,
     <<"6", "5", "5", "3", "5", NL>>, <<"6", "5", "5", "3", "6", NL>>,
     <<"4", "2", "9", "4", "9", "6", "7", "2", "9", "6", NL>>}

\* Values the string setters are given.
StringInputs == Strings \cup {NullText, <<"\t", "a">>, <<"a", "\t">>}

UnsignedInputs == {0, 1, 10, 255, 256, 65535}

NotDecoded == [fn |-> "none", res |-> NoVal, val |-> NoVal]

Encodes(op, arg, bytes) ==
    /\ content' = bytes
    /\ last' = Called(op, <<>>, arg, "Ok", NoVal)
    /\ decoded' = NotDecoded
    /\ UNCHANGED <<fs, call>>

Decodes(fn, r) ==
    /\ decoded' = [fn |-> fn, res |-> r.res, val |-> r.val]
    /\ UNCHANGED <<fs, last, call, content>>

\* set_enable, set_attr_allow_any_host
EncodeBool(value) == Encodes("set_bool", value, bool_bytes(value))

\* set_ana_grpid, set_attr_cntlid_min, set_attr_cntlid_max
EncodeUnsigned(value) == Encodes("set_unsigned", value, Line(to_string(value)))

\* set_device_nguid, set_device_uuid, set_device_path, set_attr_model,
\* set_attr_serial, set_addr_*
EncodeString(value) == Encodes("set_string", value, Line(value))

\* Namespace::enable
DecodeEnable == Decodes("enable", decode_enable(content))

\* Subsystem::attr_allow_any_host
DecodeAllowAnyHost ==
    Decodes("attr_allow_any_host", decode_allow_any_host(content))

\* Namespace::ana_grpid
DecodeU32 == Decodes("ana_grpid", decode_unwrap_unsigned(content, U32_MAX))

\* Subsystem::attr_cntlid_min, attr_cntlid_max
DecodeU16 == Decodes("attr_cntlid", decode_unwrap_unsigned(content, U16_MAX))

\* Namespace::device_nguid, device_uuid; Port::addr_*
DecodeString == Decodes("read_String", decode_String(content))

\* Subsystem::attr_model, attr_serial
DecodeTrimEnd == Decodes("attr_string", decode_trim_end(content))

\* Namespace::device_path
DecodeDevicePath == Decodes("device_path", decode_device_path(content))

InitCodec ==
    /\ fs = EmptyTree
    /\ last = Called("none", <<>>, NoVal, "Ok", NoVal)
    /\ call = [c \in Callers |-> Idle]
    /\ content \in Contents
    /\ decoded = NotDecoded

NextCodec ==
    \/ \E v \in BOOLEAN : EncodeBool(v)
    \/ \E v \in UnsignedInputs : EncodeUnsigned(v)
    \/ \E v \in StringInputs : EncodeString(v)
    \/ DecodeEnable
    \/ DecodeAllowAnyHost
    \/ DecodeU32
    \/ DecodeU16
    \/ DecodeString
    \/ DecodeTrimEnd
    \/ DecodeDevicePath

----------------------------------------------------------------------------

Init ==
    /\ fs = EmptyTree
    /\ last = Called("none", <<>>, NoVal, "Ok", NoVal)
    /\ call = [c \in Callers |-> Idle]
    /\ content = <<>>
    /\ decoded = NotDecoded

Next ==
    \/ \E nqn \in Nqns : SubsystemNew(nqn)
    \/ \E nqn \in Nqns : SubsystemExists(nqn)
    \/ \E nqn \in Nqns : SubsystemDelete(nqn)
    \/ \E nqn \in Nqns, nsid \in Nsids : SubsystemCreateNamespace(nqn, nsid)
    \/ \E id \in PortIds : PortNew(id)
    \/ \E id \in PortIds : PortExists(id)
    \/ \E id \in PortIds : PortDelete(id)
    \/ \E nqn \in HostNqns : HostNew(nqn)
    \/ \E nqn \in HostNqns : HostExists(nqn)
    \/ \E nqn \in HostNqns : HostDelete(nqn)
    \/ \E id \in PortIds, nqn \in Nqns : PortHasSubsystem(id, nqn)
    \/ \E id \in PortIds, nqn \in Nqns : PortAddSubsystem(id, nqn)
    \/ \E id \in PortIds, nqn \in Nqns : PortRemoveSubsystem(id, nqn)

Spec == Init /\ [][Next]_vars

NextAttr ==
    \/ \E nqn \in Nqns : SubsystemNew(nqn)
    \/ \E nqn \in Nqns, nsid \in Nsids : SubsystemCreateNamespace(nqn, nsid)
    \/ \E id \in PortIds : PortNew(id)
    \/ \E nqn \in HostNqns : HostNew(nqn)
    \/ AttrCalls(BOOLEAN, {0, 1}, {<<"a">>})

SpecAttr == Init /\ [][NextAttr]_vars

SpecRace == Init /\ [][NextRace]_vars

SpecCodec == InitCodec /\ [][NextCodec]_vars

----------------------------------------------------------------------------
(* The claims.  In the sequential specifications every step is one call,   *)
(* named by last'.op, made on last'.target in the tree fs and leaving the  *)
(* tree fs'.                                                               *)

NewOps == {"Subsystem::new", "Port::new", "Host::new"}

DeleteOps == {"Subsystem::delete", "Port::delete", "Host::delete"}

ExistsOps == {"Subsystem::exists", "Port::exists", "Host::exists"}

GetterOps ==
    {"Namespace::enable", "Namespace::ana_grpid", "Namespace::device_nguid",
     "Namespace::device_uuid", "Namespace::device_path",
     "Subsystem::attr_allow_any_host", "Subsystem::attr_cntlid_min",
     "Subsystem::attr_cntlid_max", "Subsystem::attr_model",
     "Subsystem::attr_serial", "Port::addr_adrfam", "Port::addr_traddr",
     "Port::addr_trsvcid", "Port::addr_trtype"}

\* The attribute a getter reads: its name after the "Type::".
AfterColons(op) ==
    CHOOSE a \in SubsystemAttrs \cup NamespaceAttrs \cup PortAttrs :
        op \in {"Namespace::" \o a, "Subsystem::" \o a, "Port::" \o a}

\* The namespaces of the subsystem directory p, and the links in the port
\* directory p.
NamespacesOf(f, p) ==
    {q \in f.dirs : Len(q) = 4 /\ SubSeq(q, 1, 2) = p /\ q[3] = "namespaces"}

LinksOf(f, p) ==
    {q \in DOMAIN f.links : Len(q) = 4 /\ SubSeq(q, 1, 2) = p}

NoNewline(s) == \A i \in 1..Len(s) : s[i] # NL

(* C1: Port::new(id) called when the port directory exists returns an      *)
(* already-exists error (not Ok) and leaves the tree, the port's           *)
(* attributes and links included, unchanged.                               *)
C1_PortNewExistingFails ==
    [][(last'.op = "Port::new" /\ last'.target \in fs.dirs)
         => (last'.res = "AlreadyExists" /\ fs' = fs)]_vars

(* C2: Subsystem::new, Host::new and create_namespace called when the      *)
(* target directory exists return an already-exists error, and the whole   *)
(* tree (directories, attribute texts, links) is the same after the call.  *)
C2_CreateExistingFails ==
    [][(/\ last'.op \in {"Subsystem::new", "Host::new",
                         "Subsystem::create_namespace"}
        /\ last'.target \in fs.dirs)
         => (last'.res = "AlreadyExists" /\ fs' = fs)]_vars

\* A creation call has just failed on an existing namespace of a subsystem
\* one of whose attribute files, or one of the namespace's, has been set.
C2_Witness ==
    /\ last.op = "Subsystem::create_namespace"
    /\ last.res = "AlreadyExists"
    /\ last.target \in fs.dirs
    /\ \E d \in Dirty(fs) : IsPrefix(SubSeq(last.target, 1, 2), d)

(* C3: two callers that concurrently make the same creation call, both     *)
(* starting with the entity absent, return one success and one             *)
(* already-exists error, in every interleaving.                            *)
C3_ExactlyOneCreates ==
    \A c1, c2 \in Callers :
        (/\ c1 # c2
         /\ call[c1].pc = "returned" /\ call[c2].pc = "returned"
         /\ call[c1].op = call[c2].op /\ call[c1].target = call[c2].target
         /\ call[c1].absent /\ call[c2].absent)
        => {call[c1].res, call[c2].res} = {"Ok", "AlreadyExists"}

(* C4: Subsystem::delete, Port::delete and Host::delete succeed only on an *)
(* existing directory with no namespace and no link in it; on an absent    *)
(* identity they return not-found; Subsystem::delete on a subsystem with a *)
(* namespace returns an error; a failed delete leaves the tree unchanged.  *)
C4_DeleteFailsCleanly ==
    [][last'.op \in DeleteOps =>
         /\ last'.res = "Ok" =>
              /\ last'.target \in fs.dirs
              /\ NamespacesOf(fs, last'.target) = {}
              /\ LinksOf(fs, last'.target) = {}
         /\ last'.target \notin fs.dirs => last'.res = "NotFound"
         /\ (last'.op = "Subsystem::delete"
             /\ NamespacesOf(fs, last'.target) # {}) => last'.res # "Ok"
         /\ last'.res # "Ok" => fs' = fs]_vars

\* Subsystem::delete has just failed on a subsystem that owns a namespace,
\* and both are still there.
C4_Witness ==
    /\ last.op = "Subsystem::delete"
    /\ last.res = "NotEmpty"
    /\ last.target \in fs.dirs
    /\ NamespacesOf(fs, last.target) # {}

\* What the entity's exists call returns in tree f.
ExistsIn(f, x) ==
    CASE x[1] = "subsystems" -> Subsystem_exists(f, x[2])
      [] x[1] = "hosts" -> Host_exists(f, x[2])
      [] x[1] = "ports" ->
           Port_exists(f, CHOOSE id \in PortIds : Port_path(id) = x)

EntityPaths ==
    {Subsystem_path(n) : n \in Nqns} \cup {Host_path(n) : n \in HostNqns}
    \cup {Port_path(id) : id \in PortIds}

(* C5: for Subsystem, Port and Host and every identity x: exists(x) right  *)
(* after a successful create of x returns Ok(true), right after a          *)
(* successful delete of x returns Ok(false), and no call other than a      *)
(* successful create or delete of x changes what exists(x) returns.        *)
C5_ExistsFollowsLifecycle ==
    [][\A x \in EntityPaths :
         LET created == last'.op \in NewOps /\ last'.target = x
                         /\ last'.res = "Ok"
             deleted == last'.op \in DeleteOps /\ last'.target = x
                         /\ last'.res = "Ok"
         IN  /\ created => ExistsIn(fs', x)
             /\ deleted => ~ExistsIn(fs', x)
             /\ (~created /\ ~deleted) => (ExistsIn(fs', x) <=> ExistsIn(fs, x))
             /\ (last'.op \in ExistsOps /\ last'.target = x) =>
                  /\ last'.res = "Ok"
                  /\ last'.val <=> ExistsIn(fs, x)
                  /\ (last.op \in NewOps /\ last.target = x /\ last.res = "Ok")
                       => last'.val
                  /\ (last.op \in DeleteOps /\ last.target = x
                      /\ last.res = "Ok") => ~last'.val]_vars

\* exists has just returned false for an identity after entities of the
\* other two kinds were made.
C5_Witness ==
    /\ last.op = "Subsystem::exists"
    /\ last.res = "Ok" /\ last.val = FALSE
    /\ \E id \in PortIds : Port_path(id) \in fs.dirs
    /\ \E n \in HostNqns : Host_path(n) \in fs.dirs
    /\ \E n \in Nqns : Subsystem_path(n) \in fs.dirs

(* C6: has_subsystem returns Ok(false) whenever the link is absent,        *)
(* Ok(true) right after a successful add_subsystem of the pair and         *)
(* Ok(false) right after a successful remove_subsystem of it; add and      *)
(* remove leave the links of other ports and other subsystems as they are. *)
C6_HasSubsystemFollowsLinks ==
    [][/\ last'.op = "Port::has_subsystem" =>
            /\ last'.target \notin DOMAIN fs.links
                 => (last'.res = "Ok" /\ last'.val = FALSE)
            /\ (last.op = "Port::add_subsystem" /\ last.res = "Ok"
                /\ last.target = last'.target)
                 => (last'.res = "Ok" /\ last'.val = TRUE)
            /\ (last.op = "Port::remove_subsystem" /\ last.res = "Ok"
                /\ last.target = last'.target)
                 => (last'.res = "Ok" /\ last'.val = FALSE)
       /\ last'.op \in {"Port::add_subsystem", "Port::remove_subsystem"} =>
            \A id \in PortIds, nqn \in Nqns :
                LinkPath(id, nqn) # last'.target =>
                    /\ LinkPath(id, nqn) \in DOMAIN fs'.links
                         <=> LinkPath(id, nqn) \in DOMAIN fs.links
                    /\ Port_has_subsystem(fs', id, nqn)
                         = Port_has_subsystem(fs, id, nqn)]_vars

\* A link has just been removed while another port still exports the same
\* subsystem and the same port another subsystem.
C6_Witness ==
    /\ last.op = "Port::remove_subsystem"
    /\ last.res = "Ok"
    /\ \E l \in DOMAIN fs.links : l[2] # last.target[2] /\ l[4] = last.target[4]
    /\ \E l \in DOMAIN fs.links : l[2] = last.target[2] /\ l[4] # last.target[4]

(* C7: every attribute getter called when its backing file is absent       *)
(* returns an I/O error value; it returns no default and does not abort.   *)
C7_GetterOnAbsentFileReturnsIoError ==
    (/\ last.op \in GetterOps
     /\ join(last.target, AfterColons(last.op)) \notin DOMAIN fs.files)
    => last.res = "Err(Io)"

(* C7, second part: non-numeric text in an integer attribute is returned   *)
(* as a parse error value.                                                 *)
C7_NonNumericReturnsParseError ==
    (/\ decoded.fn \in {"enable", "ana_grpid", "attr_cntlid"}
     /\ \E i \in 1..Len(content) : content[i] = "a")
    => decoded.res = "Err(Parse)"

NoEdgeWhitespace(s) ==
    s = <<>> \/ (~IsWhitespace(s[1]) /\ ~IsWhitespace(s[Len(s)]))

(* C8: for every newline-free string s, leading or trailing spaces or tabs *)
(* included, set_X(s) followed by X() returns exactly s, for the string    *)
(* attributes of Namespace, Subsystem and Port.                            *)
C8_StringRoundTrip ==
    (/\ last.op = "set_string" /\ NoNewline(last.arg)
     /\ decoded.fn \in {"read_String", "attr_string"})
    => (decoded.res = "Ok" /\ decoded.val = last.arg)

(* C8 as amended: set_X(s) followed by X() returns exactly s for every     *)
(* newline-free s for attr_model and attr_serial, and for every            *)
(* newline-free s that neither starts nor ends with whitespace for         *)
(* device_nguid, device_uuid and the four addr_ attributes.                *)
C8_StringRoundTripAmended ==
    (/\ last.op = "set_string" /\ NoNewline(last.arg)
     /\ \/ decoded.fn = "attr_string"
        \/ decoded.fn = "read_String" /\ NoEdgeWhitespace(last.arg))
    => (decoded.res = "Ok" /\ decoded.val = last.arg)

\* attr_model has just been read back after being set to a text with
\* leading and trailing blanks.
C8_Witness ==
    /\ last.op = "set_string"
    /\ last.arg = <<" ", "a", " ">>
    /\ decoded.fn = "attr_string"
    /\ decoded.val = <<" ", "a", " ">>

(* C9: the boolean setters write exactly "1\n" or "0\n"; the getters       *)
(* return true only for the text "1\n" and false only for "0\n", and any   *)
(* other text is surfaced as a failure.                                    *)
C9_BooleanDecodeIsExact ==
    /\ last.op = "set_bool" => content \in {<<"1", NL>>, <<"0", NL>>}
    /\ decoded.fn \in {"enable", "attr_allow_any_host"} =>
         IF decoded.res = "Ok"
         THEN content = (IF decoded.val THEN <<"1", NL>> ELSE <<"0", NL>>)
         ELSE content \notin {<<"1", NL>>, <<"0", NL>>}

\* c with one trailing newline removed.
ChopNewline(c) ==
    IF c # <<>> /\ c[Len(c)] = NL THEN SubSeq(c, 1, Len(c) - 1) ELSE c

\* c with every trailing newline removed.
RECURSIVE ChopNewlines(_)
ChopNewlines(c) ==
    IF c # <<>> /\ c[Len(c)] = NL THEN ChopNewlines(ChopNewline(c)) ELSE c

(* C10: device_path() returns None if and only if the file's text is       *)
(* "(null)\n"; for every other text c it returns Some(c with its single    *)
(* trailing newline removed); set_device_path(s) then device_path()        *)
(* returns Some(s) for every newline-free s other than "(null)".           *)
C10_DevicePathDecode ==
    decoded.fn = "device_path" =>
        /\ decoded.res = "Ok"
        /\ decoded.val = None <=> content = Line(NullText)
        /\ content # Line(NullText) => decoded.val = Some(ChopNewline(content))
        /\ (last.op = "set_string" /\ NoNewline(last.arg)
            /\ last.arg # NullText) => decoded.val = Some(last.arg)

(* C10 as amended: device_path() returns None if and only if the file's    *)
(* text is "(null)\n"; for every other text c it returns Some(c with all   *)
(* its trailing newlines removed); set_device_path(s) then device_path()   *)
(* returns Some(s) for every newline-free s other than "(null)".           *)
C10_DevicePathDecodeAmended ==
    decoded.fn = "device_path" =>
        /\ decoded.res = "Ok"
        /\ decoded.val = None <=> content = Line(NullText)
        /\ content # Line(NullText) => decoded.val = Some(ChopNewlines(content))
        /\ (last.op = "set_string" /\ NoNewline(last.arg)
            /\ last.arg # NullText) => decoded.val = Some(last.arg)

\* device_path has just decoded a text that ends in two newlines.
C10_Witness ==
    /\ decoded.fn = "device_path"
    /\ content = <<"a", NL, NL>>
    /\ decoded.val = Some(<<"a">>)

====
